---- MODULE Spec2Model ----
(***************************************************************************)
(* Instruction-dataset sample preparation (_instruct.py) and the prompt    *)
(* templates it formats with (_instruct_templates.py).                     *)
(*                                                                         *)
(* Strings are sequences of text pieces; a template layout is a fixed head *)
(* piece, the instruction text, a separator piece, the input text and a    *)
(* fixed tail piece, concatenated as str.format concatenates them.         *)
(* An Optional[int] is a record [some, v]; an Optional[dict] is a record   *)
(* [none, d].  A call that can raise returns a record [ok, err, val].      *)
(***************************************************************************)
EXTENDS Integers, Sequences, FiniteSets, TLC

VARIABLES
    cfg,                 \* the dataset object's attributes set by __init__
    data,                \* self._data, the data source
    pc,                  \* position inside __getitem__/_prepare_sample
    index,               \* argument of the running / last __getitem__
    transformed_sample,  \* locals of _prepare_sample
    prompt,
    messages,
    tokens,
    mask,
    result,              \* what the last __getitem__ returned or raised
    calls,               \* stages invoked by the running / last preparation
    built,               \* outcome of the last constructor / builder call
    cfg0,                \* history: configuration and data at construction
    data0,
    firstResult          \* history: first completed result per index

vars == <<cfg, data, pc, index, transformed_sample, prompt, messages, tokens,
          mask, result, calls, built, cfg0, data0, firstResult>>

-----------------------------------------------------------------------------
(* Bounds *)

MaxLen == 2
NumTokenIds == 2
MaxSeen == 2

TokenIds == 1..NumTokenIds

CROSS_ENTROPY_IGNORE_IDX == -100

-----------------------------------------------------------------------------
(* Values *)

NoneInt == [some |-> FALSE, v |-> 0]

SomeInt(n) == [some |-> TRUE, v |-> n]

EmptyDict == [k \in {} |-> ""]

NoneDict == [none |-> TRUE, d |-> EmptyDict]

Dict(f) == [none |-> FALSE, d |-> f]

Ok(v) == [ok |-> TRUE, err |-> "", val |-> v]

Raise(e) == [ok |-> FALSE, err |-> e, val |-> <<>>]

Range(s) == {s[i] : i \in 1..Len(s)}

RECURSIVE SeqsOfLen(_, _)
SeqsOfLen(S, n) ==
    IF n = 0 THEN {<<>>}
    ELSE {Append(s, x) : s \in SeqsOfLen(S, n - 1), x \in S}

SeqsUpTo(S, n) == UNION {SeqsOfLen(S, k) : k \in 0..n}

-----------------------------------------------------------------------------
(* Templates: _instruct_templates.py *)

TemplateClasses == {"AlpacaInstructTemplate", "LlamaInstructTemplate"}

\* a class that does not derive from InstructTemplate
OtherClass == "PlainObject"

IsSubclass(c, base) ==
    \/ c = base
    \/ c \in TemplateClasses /\ base = "InstructTemplate"

AlpacaLayout ==
    [head |-> "Below is an instruction that describes a task. Write a response that appropriately completes the request.\n\n### Instruction:\n",
     sep  |-> "\n",
     tail |-> "\n\n### Response:\n"]

LlamaLayout ==
    [head |-> "<|start_header_id|>system<|end_header_id|>\n\nCutting Knowledge Date: December 2023\nToday Date: 23 July 2024\n\nYou are a helpful assistant<|start_header_id|>user<|end_header_id|>\n\n",
     sep  |-> "\n",
     tail |-> "\n<|start_header_id|>assistant<|end_header_id|>"]

Layout(t) == IF t = "AlpacaInstructTemplate" THEN AlpacaLayout ELSE LlamaLayout

\* column_map.get(k, default)
DictGet(d, k, default) == IF k \in DOMAIN d THEN d[k] ELSE default

\* the layout's str.format(instruction=..., input=...)
Substitute(layout, instruction, input) ==
    <<layout.head>> \o instruction \o <<layout.sep>> \o input \o <<layout.tail>>

FormatNoInputWhenEmpty(t, sample, column_map) ==
    LET cm == IF column_map.none \/ DOMAIN column_map.d = {}
              THEN EmptyDict ELSE column_map.d
        key_input == DictGet(cm, "input", "input")
        key_instruction == DictGet(cm, "instruction", "instruction")
    IN  IF key_instruction \notin DOMAIN sample THEN Raise("KeyError")
        ELSE IF key_input \in DOMAIN sample /\ sample[key_input] # <<>>
        THEN Ok(Substitute(Layout(t), sample[key_instruction], sample[key_input]))
        ELSE Ok(<<Layout(t).head>> \o sample[key_instruction] \o <<Layout(t).tail>>)

FormatIgnoresColumnMap(t, sample, column_map) ==
    IF "instruction" \notin DOMAIN sample \/ "input" \notin DOMAIN sample
    THEN Raise("KeyError")
    ELSE Ok(Substitute(Layout(t), sample["instruction"], sample["input"]))

Format(t, sample, column_map) ==
    LET cm == IF column_map.none \/ DOMAIN column_map.d = {}
              THEN EmptyDict ELSE column_map.d
        key_input == DictGet(cm, "input", "input")
        key_instruction == DictGet(cm, "instruction", "instruction")
    IN  IF key_instruction \notin DOMAIN sample \/ key_input \notin DOMAIN sample
        THEN Raise("KeyError")
        ELSE Ok(Substitute(Layout(t), sample[key_instruction], sample[key_input]))

-----------------------------------------------------------------------------
(* Inputs: samples, column maps, transforms, tokenizer outputs *)

Data ==
    << [instruction |-> <<"Summarize">>, input |-> <<"Long", "text">>,
        output |-> <<"Short", "summary">>],
       [prompt |-> <<"X">>, input |-> <<"Y">>, output |-> <<"Z">>],
       [prompt |-> <<"X">>, instruction |-> <<"W">>, input |-> <<>>,
        output |-> <<"Z">>],
       [instruction |-> <<"X">>, input |-> <<"Y">>],
       [instruction |-> <<"X">>, input |-> <<"Y">>, output |-> <<>>],
       [instruction |-> <<"X">>, context |-> <<"Y">>, answer |-> <<"Z">>] >>

ColumnMaps ==
    { NoneDict,
      Dict(EmptyDict),
      Dict([k \in {"instruction"} |-> "prompt"]),
      Dict([k \in {"input", "output"} |->
               IF k = "input" THEN "context" ELSE "answer"]) }

\* caller-supplied transforms: none, one that removes the input column,
\* one that raises
Transforms == {"None", "drop_input", "raises"}

ApplyTransform(t, sample) ==
    IF t = "raises" THEN Raise("TransformError")
    ELSE Ok([k \in DOMAIN sample \ {"input"} |-> sample[k]])

MaxSeqLens == {NoneInt} \cup {SomeInt(n) : n \in 1..(MaxLen - 1)}

\* anything a tokenizer may hand back: tokens and mask of any two lengths
TokenizerOutputs ==
    {[tokens |-> t, mask |-> m] :
        t \in SeqsUpTo(TokenIds, MaxLen), m \in SeqsUpTo(BOOLEAN, MaxLen)}

-----------------------------------------------------------------------------
(* Dataset classes: _instruct.py *)

DatasetClasses == {"InstructDataset", "ISSAIInstructDataset"}

\* the isinstance test at the top of each __init__
RequiredBase(cls) ==
    IF cls = "InstructDataset" THEN "AlpacaInstructTemplate"
    ELSE "InstructTemplate"

TemplateCheck(cls, t) == IsSubclass(t, RequiredBase(cls))

\* attributes stored by __init__
NewDataset(cls, tok, t, transform, column_map, toi, max_seq_len) ==
    [cls |-> cls, tokenizer |-> tok, template |-> t,
     transform |-> transform, column_map |-> column_map,
     train_on_input |-> toi, max_seq_len |-> max_seq_len]

\* the datasets the two constructors accept, over the tokenizers in Toks
Configs(Toks) ==
    {ds \in {NewDataset(c, tk, t, tr, cm, toi, msl) :
                c \in DatasetClasses, tk \in Toks, t \in TemplateClasses,
                tr \in Transforms, cm \in ColumnMaps, toi \in BOOLEAN,
                msl \in MaxSeqLens} :
        TemplateCheck(ds.cls, ds.template)}

NoDataset == NewDataset("none", "any", "", "None", NoneDict, FALSE, NoneInt)

NoResult == [kind |-> "none", error |-> "", tokens |-> <<>>, labels |-> <<>>]

Raised(e) == [kind |-> "error", error |-> e, tokens |-> <<>>, labels |-> <<>>]

Returned(t, l) == [kind |-> "record", error |-> "", tokens |-> t, labels |-> l]

NoBuild == [fn |-> "none", outcome |-> "none", template |-> "",
            packed |-> FALSE, max_seq_len |-> NoneInt,
            tokenizer_max_seq_len |-> NoneInt, packed_max_seq_len |-> NoneInt]

\* key_output: column_map["output"] if column_map and "output" in column_map
KeyOutput(column_map) ==
    IF ~column_map.none /\ DOMAIN column_map.d # {}
       /\ "output" \in DOMAIN column_map.d
    THEN column_map.d["output"]
    ELSE "output"

Message(role, content, masked) ==
    [role |-> role, content |-> content, masked |-> masked]

BuildMessagesFlagInverted(p, sample, column_map, train_on_input) ==
    IF KeyOutput(column_map) \notin DOMAIN sample THEN Raise("KeyError")
    ELSE Ok(<< Message("user", p, train_on_input),
               Message("assistant", sample[KeyOutput(column_map)], FALSE) >>)

BuildMessages(p, sample, column_map, train_on_input) ==
    IF KeyOutput(column_map) \notin DOMAIN sample THEN Raise("KeyError")
    ELSE Ok(<< Message("user", p, ~train_on_input),
               Message("assistant", sample[KeyOutput(column_map)], FALSE) >>)

\* validate_messages: non-empty content, user then assistant, assistant
\* never masked
ValidateMessages(msgs) ==
    /\ Len(msgs) = 2
    /\ msgs[1].role = "user" /\ msgs[2].role = "assistant"
    /\ \A i \in 1..Len(msgs) : msgs[i].content # <<>>
    /\ ~msgs[2].masked

\* numpy broadcasting of two one-dimensional shapes; -1 when incompatible
BroadcastLen(m, n) ==
    IF m = n THEN n
    ELSE IF m = 1 THEN n
    ELSE IF n = 1 THEN m
    ELSE -1

NpWhereSwapped(cond, x, ys) ==
    LET n == BroadcastLen(Len(cond), Len(ys))
    IN  IF n < 0 THEN Raise("ValueError")
        ELSE Ok([i \in 1..n |->
                   IF cond[IF Len(cond) = n THEN i ELSE 1]
                   THEN ys[IF Len(ys) = n THEN i ELSE 1]
                   ELSE x])

\* np.where(cond, x, ys) with a scalar x
NpWhere(cond, x, ys) ==
    LET n == BroadcastLen(Len(cond), Len(ys))
    IN  IF n < 0 THEN Raise("ValueError")
        ELSE Ok([i \in 1..n |->
                   IF cond[IF Len(cond) = n THEN i ELSE 1]
                   THEN x
                   ELSE ys[IF Len(ys) = n THEN i ELSE 1]])

\* labels = list(np.where(mask, IGNORE, tokens)); assert; return
DeriveLabels(toks, msk) ==
    LET w == NpWhere(msk, CROSS_ENTROPY_IGNORE_IDX, toks)
    IN  IF ~w.ok THEN Raised(w.err)
        ELSE IF Len(toks) # Len(w.val) THEN Raised("AssertionError")
        ELSE Returned(toks, w.val)

-----------------------------------------------------------------------------
(* Tokenizers handed to the constructor.  "any" stands for an arbitrary    *)
(* tokenizer, whose every call may return any output or raise; the others  *)
(* are fixed functions of the messages.                                    *)

Vocabulary ==
    << AlpacaLayout.head, AlpacaLayout.sep, AlpacaLayout.tail,
       LlamaLayout.head, LlamaLayout.tail,
       "Summarize", "Long", "text", "Short", "summary", "X", "Y", "Z", "W" >>

PieceId(p) == CHOOSE i \in 1..Len(Vocabulary) : Vocabulary[i] = p

Encode(content) == [i \in 1..Len(content) |-> PieceId(content[i])]

Repeat(b, n) == [i \in 1..n |-> b]

FixedTokenizers == {"chat", "short_mask", "raises"}

\* "chat" encodes each message and masks its tokens by the message's flag;
\* "short_mask" returns a mask one element short; "raises" always raises
TokenizeMessages(tokenizer, msgs) ==
    LET toks == Encode(msgs[1].content) \o Encode(msgs[2].content)
        msk  == Repeat(msgs[1].masked, Len(msgs[1].content))
                \o Repeat(msgs[2].masked, Len(msgs[2].content))
    IN  IF tokenizer = "raises" THEN Raise("TokenizerError")
        ELSE IF tokenizer = "short_mask"
        THEN Ok([tokens |-> toks, mask |-> SubSeq(msk, 1, Len(msk) - 1)])
        ELSE Ok([tokens |-> toks, mask |-> msk])

-----------------------------------------------------------------------------
(* __getitem__ and _prepare_sample, one action per statement *)

\* history: the first result completed for index i and how many lookups of
\* i have completed (counted up to MaxSeen)
Observe(i, r) ==
    IF i \in DOMAIN firstResult
    THEN [firstResult EXCEPT
            ![i] = [res  |-> IF @.seen = 0 THEN r ELSE @.res,
                    seen |-> IF @.seen < MaxSeen THEN @.seen + 1 ELSE @.seen]]
    ELSE firstResult

\* the call returns or raises r
Finish(r) ==
    /\ pc' = "idle"
    /\ result' = r
    /\ firstResult' = Observe(index, r)

Continue(next) ==
    /\ pc' = next
    /\ UNCHANGED <<result, firstResult>>

GetItemTogglesFlag(i) ==
    /\ pc = "idle"
    /\ i \in 1..Len(data)
    /\ pc' = "transform"
    /\ index' = i
    /\ transformed_sample' = EmptyDict
    /\ prompt' = <<>>
    /\ messages' = <<>>
    /\ tokens' = <<>>
    /\ mask' = <<>>
    /\ result' = NoResult
    /\ calls' = <<>>
    /\ cfg' = [cfg EXCEPT !.train_on_input = ~cfg.train_on_input]
    /\ UNCHANGED <<data, built, cfg0, data0, firstResult>>

\* sample = self._data[index]; enter _prepare_sample
GetItem(i) ==
    /\ pc = "idle"
    /\ i \in 1..Len(data)
    /\ pc' = "transform"
    /\ index' = i
    /\ transformed_sample' = EmptyDict
    /\ prompt' = <<>>
    /\ messages' = <<>>
    /\ tokens' = <<>>
    /\ mask' = <<>>
    /\ result' = NoResult
    /\ calls' = <<>>
    /\ UNCHANGED <<cfg, data, built, cfg0, data0, firstResult>>

\* transformed_sample = self._transform(sample) if self._transform else sample
Transform ==
    /\ pc = "transform"
    /\ IF cfg.transform = "None"
       THEN /\ transformed_sample' = data[index]
            /\ calls' = calls
            /\ Continue("format")
       ELSE LET r == ApplyTransform(cfg.transform, data[index])
            IN  /\ calls' = Append(calls, "transform")
                /\ IF r.ok
                   THEN transformed_sample' = r.val /\ Continue("format")
                   ELSE transformed_sample' = transformed_sample
                        /\ Finish(Raised(r.err))
    /\ UNCHANGED <<cfg, data, index, prompt, messages, tokens, mask, built,
                   cfg0, data0>>

\* prompt = self.template.format(transformed_sample, self._column_map)
FormatPrompt ==
    /\ pc = "format"
    /\ LET r == Format(cfg.template, transformed_sample, cfg.column_map)
       IN  /\ calls' = Append(calls, "format")
           /\ IF r.ok
              THEN prompt' = r.val /\ Continue("build")
              ELSE prompt' = prompt /\ Finish(Raised(r.err))
    /\ UNCHANGED <<cfg, data, index, transformed_sample, messages, tokens,
                   mask, built, cfg0, data0>>

\* key_output = ...; messages = [Message(user), Message(assistant)]
Build ==
    /\ pc = "build"
    /\ LET r == BuildMessages(prompt, transformed_sample, cfg.column_map,
                              cfg.train_on_input)
       IN  /\ calls' = Append(calls, "build")
           /\ IF r.ok
              THEN messages' = r.val /\ Continue("validate")
              ELSE messages' = messages /\ Finish(Raised(r.err))
    /\ UNCHANGED <<cfg, data, index, transformed_sample, prompt, tokens,
                   mask, built, cfg0, data0>>

ValidateIgnoresFailure ==
    /\ pc = "validate"
    /\ calls' = Append(calls, "validate")
    /\ Continue("tokenize")
    /\ UNCHANGED <<cfg, data, index, transformed_sample, prompt, messages,
                   tokens, mask, built, cfg0, data0>>

\* validate_messages(messages)
Validate ==
    /\ pc = "validate"
    /\ calls' = Append(calls, "validate")
    /\ IF ValidateMessages(messages)
       THEN Continue("tokenize")
       ELSE Finish(Raised("ValidationError"))
    /\ UNCHANGED <<cfg, data, index, transformed_sample, prompt, messages,
                   tokens, mask, built, cfg0, data0>>

\* tokens, mask = self._tokenizer.tokenize_messages(messages): an arbitrary
\* tokenizer returns some output
Tokenize ==
    /\ pc = "tokenize"
    /\ cfg.tokenizer = "any"
    /\ calls' = Append(calls, "tokenize")
    /\ \E out \in TokenizerOutputs :
          /\ tokens' = out.tokens
          /\ mask' = out.mask
    /\ Continue("labels")
    /\ UNCHANGED <<cfg, data, index, transformed_sample, prompt, messages,
                   built, cfg0, data0>>

\* ... or raises
TokenizeRaises ==
    /\ pc = "tokenize"
    /\ cfg.tokenizer = "any"
    /\ calls' = Append(calls, "tokenize")
    /\ Finish(Raised("TokenizerError"))
    /\ UNCHANGED <<cfg, data, index, transformed_sample, prompt, messages,
                   tokens, mask, built, cfg0, data0>>

\* the same statement with one of the fixed tokenizers
TokenizeFixed ==
    /\ pc = "tokenize"
    /\ cfg.tokenizer \in FixedTokenizers
    /\ calls' = Append(calls, "tokenize")
    /\ LET r == TokenizeMessages(cfg.tokenizer, messages)
       IN  IF r.ok
           THEN /\ tokens' = r.val.tokens
                /\ mask' = r.val.mask
                /\ Continue("labels")
           ELSE /\ UNCHANGED <<tokens, mask>>
                /\ Finish(Raised(r.err))
    /\ UNCHANGED <<cfg, data, index, transformed_sample, prompt, messages,
                   built, cfg0, data0>>

\* labels = list(np.where(...)); assert len(tokens) == len(labels); return
Labels ==
    /\ pc = "labels"
    /\ calls' = Append(calls, "labels")
    /\ Finish(DeriveLabels(tokens, mask))
    /\ UNCHANGED <<cfg, data, index, transformed_sample, prompt, messages,
                   tokens, mask, built, cfg0, data0>>

-----------------------------------------------------------------------------
(* Specification of sample preparation with an arbitrary tokenizer *)

Init ==
    /\ cfg \in Configs({"any"})
    /\ data = Data
    /\ pc = "idle"
    /\ index = 0
    /\ transformed_sample = EmptyDict
    /\ prompt = <<>>
    /\ messages = <<>>
    /\ tokens = <<>>
    /\ mask = <<>>
    /\ result = NoResult
    /\ calls = <<>>
    /\ built = NoBuild
    /\ cfg0 = cfg
    /\ data0 = data
    /\ firstResult = <<>>

Next ==
    \/ \E i \in 1..Len(data) : GetItem(i)
    \/ Transform
    \/ FormatPrompt
    \/ Build
    \/ Validate
    \/ Tokenize
    \/ TokenizeRaises
    \/ Labels

Spec == Init /\ [][Next]_vars

-----------------------------------------------------------------------------
(* Specification of repeated lookups with a fixed tokenizer *)

\* a sample that prepares, one that needs a column map, one without output
FrameData == <<Data[1], Data[2], Data[4]>>

InitFrame ==
    /\ cfg \in Configs(FixedTokenizers)
    /\ data = FrameData
    /\ pc = "idle"
    /\ index = 0
    /\ transformed_sample = EmptyDict
    /\ prompt = <<>>
    /\ messages = <<>>
    /\ tokens = <<>>
    /\ mask = <<>>
    /\ result = NoResult
    /\ calls = <<>>
    /\ built = NoBuild
    /\ cfg0 = cfg
    /\ data0 = data
    /\ firstResult = [i \in 1..Len(data) |-> [res |-> NoResult, seen |-> 0]]

NextFrame ==
    \/ \E i \in 1..Len(data) : GetItem(i)
    \/ Transform
    \/ FormatPrompt
    \/ Build
    \/ Validate
    \/ TokenizeFixed
    \/ Labels

SpecFrame == InitFrame /\ [][NextFrame]_vars

-----------------------------------------------------------------------------
(* Constructors and builders *)

BuilderTemplates == TemplateClasses \cup {OtherClass}

\* PackedDataset(ds, max_seq_len=n) is library code: with n = None it packs
\* an empty dataset and fails on the first length comparison otherwise
PackedOutcomes(n) ==
    IF n.some THEN {"PackedDataset"} ELSE {"PackedDataset", "TypeError"}

BuildRecord(fn, outcome, t, packed, msl, tmsl, pmsl) ==
    [fn |-> fn, outcome |-> outcome, template |-> t, packed |-> packed,
     max_seq_len |-> msl, tokenizer_max_seq_len |-> tmsl,
     packed_max_seq_len |-> pmsl]

\* InstructDataset.__init__ / ISSAIInstructDataset.__init__
Construct(cls, t, tr, cm, toi, msl) ==
    /\ built' = BuildRecord(cls,
                            IF TemplateCheck(cls, t) THEN cls ELSE "ValueError",
                            t, FALSE, msl, NoneInt, NoneInt)
    /\ cfg' = IF TemplateCheck(cls, t)
              THEN NewDataset(cls, "any", t, tr, cm, toi, msl)
              ELSE NoDataset
    /\ UNCHANGED <<data, pc, index, transformed_sample, prompt, messages,
                   tokens, mask, result, calls, cfg0, data0, firstResult>>

\* instruct_dataset(tokenizer, ..., packed, max_seq_len, template)
InstructDatasetBuilder(t, cm, toi, msl, packed, tmsl) ==
    /\ IF ~TemplateCheck("InstructDataset", t)
       THEN /\ built' = BuildRecord("instruct_dataset", "ValueError", t,
                                    packed, msl, tmsl, NoneInt)
            /\ cfg' = NoDataset
       ELSE /\ cfg' = NewDataset("InstructDataset", "any", t, "None", cm,
                                 toi, msl)
            /\ IF packed
               THEN IF ~tmsl.some
                    THEN built' = BuildRecord("instruct_dataset", "ValueError",
                                              t, packed, msl, tmsl, NoneInt)
                    ELSE \E o \in PackedOutcomes(tmsl) :
                            built' = BuildRecord("instruct_dataset", o, t,
                                                 packed, msl, tmsl, tmsl)
               ELSE built' = BuildRecord("instruct_dataset",
                                         "NotPackedDataset", t, packed, msl,
                                         tmsl, NoneInt)
    /\ UNCHANGED <<data, pc, index, transformed_sample, prompt, messages,
                   tokens, mask, result, calls, cfg0, data0, firstResult>>

\* issai_instruct_dataset(data, tokenizer, template, ..., max_seq_len, packed)
IssaiInstructDatasetBuilder(t, cm, toi, msl, packed, tmsl) ==
    /\ IF ~TemplateCheck("ISSAIInstructDataset", t)
       THEN /\ built' = BuildRecord("issai_instruct_dataset", "ValueError", t,
                                    packed, msl, tmsl, NoneInt)
            /\ cfg' = NoDataset
       ELSE /\ cfg' = NewDataset("ISSAIInstructDataset", "any", t, "None", cm,
                                 toi, msl)
            /\ IF packed
               THEN \E o \in PackedOutcomes(msl) :
                       built' = BuildRecord("issai_instruct_dataset", o, t,
                                            packed, msl, tmsl, msl)
               ELSE built' = BuildRecord("issai_instruct_dataset",
                                         "NotPackedDataset", t, packed, msl,
                                         tmsl, NoneInt)
    /\ UNCHANGED <<data, pc, index, transformed_sample, prompt, messages,
                   tokens, mask, result, calls, cfg0, data0, firstResult>>

InitBuild ==
    /\ cfg = NoDataset
    /\ data = Data
    /\ pc = "idle"
    /\ index = 0
    /\ transformed_sample = EmptyDict
    /\ prompt = <<>>
    /\ messages = <<>>
    /\ tokens = <<>>
    /\ mask = <<>>
    /\ result = NoResult
    /\ calls = <<>>
    /\ built = NoBuild
    /\ cfg0 = cfg
    /\ data0 = data
    /\ firstResult = <<>>

NextBuild ==
    \/ \E cls \in DatasetClasses, t \in BuilderTemplates, tr \in Transforms,
          cm \in ColumnMaps, toi \in BOOLEAN, msl \in MaxSeqLens :
          Construct(cls, t, tr, cm, toi, msl)
    \/ \E t \in BuilderTemplates, cm \in ColumnMaps, toi \in BOOLEAN,
          msl \in MaxSeqLens, packed \in BOOLEAN, tmsl \in MaxSeqLens :
          InstructDatasetBuilder(t, cm, toi, msl, packed, tmsl)
    \/ \E t \in BuilderTemplates, cm \in ColumnMaps, toi \in BOOLEAN,
          msl \in MaxSeqLens, packed \in BOOLEAN, tmsl \in MaxSeqLens :
          IssaiInstructDatasetBuilder(t, cm, toi, msl, packed, tmsl)

SpecBuild == InitBuild /\ [][NextBuild]_vars

-----------------------------------------------------------------------------
(* Properties *)

Last(s) == s[Len(s)]

Invoked(stage) == stage \in Range(calls)

Completed == pc = "idle" /\ index # 0

\* the stage was invoked and did not raise
Passed(stage) == Invoked(stage) /\ ~(Completed /\ Last(calls) = stage)

ResolvedKey(name) ==
    IF ~cfg.column_map.none /\ name \in DOMAIN cfg.column_map.d
    THEN cfg.column_map.d[name]
    ELSE name

\* C1: a returned record carries the tokenizer's tokens, and for an
\* equal-length (tokens, mask) pair its labels have the tokens' length, hold
\* the ignore index exactly where the mask is true and the token elsewhere
C1_LabelsFollowMask ==
    (Completed /\ result.kind = "record" /\ Len(tokens) = Len(mask)) =>
        /\ result.tokens = tokens
        /\ Len(result.labels) = Len(result.tokens)
        /\ \A i \in 1..Len(tokens) :
              /\ (result.labels[i] = CROSS_ENTROPY_IGNORE_IDX) <=> mask[i]
              /\ ~mask[i] => result.labels[i] = tokens[i]

C1_Witness ==
    /\ Completed /\ result.kind = "record"
    /\ mask = <<TRUE, FALSE>>
    /\ tokens = <<1, 2>>
    /\ result.labels = <<CROSS_ENTROPY_IGNORE_IDX, 2>>

\* C2: the messages built are exactly a user message masked iff
\* train_on_input is false, followed by an assistant message never masked
C2_UserMaskedAssistantNot ==
    Passed("build") =>
        /\ Len(messages) = 2
        /\ messages[1].role = "user"
        /\ messages[2].role = "assistant"
        /\ messages[1].masked = ~cfg.train_on_input
        /\ messages[2].masked = FALSE

C2_Witness ==
    /\ Passed("build")
    /\ ~cfg.train_on_input
    /\ messages[1].masked
    /\ ~messages[2].masked

C5_LengthMismatchIsFatal ==
    (Completed /\ Invoked("tokenize") /\ Len(tokens) # Len(mask)) =>
        result.kind = "error"

\* C8: with max_seq_len = n no returned record holds more than n tokens or
\* labels
C8_RecordWithinMaxSeqLen ==
    (Completed /\ result.kind = "record" /\ cfg.max_seq_len.some) =>
        /\ Len(result.tokens) <= cfg.max_seq_len.v
        /\ Len(result.labels) <= cfg.max_seq_len.v

StageOrder ==
    (IF cfg.transform = "None" THEN <<>> ELSE <<"transform">>)
    \o <<"format", "build", "validate", "tokenize", "labels">>

\* C10: the stages invoked are always an initial part of transform (if
\* any), format, build, validate, tokenize, labels; the tokenizer is only
\* invoked on validated messages; a record is returned only after all
\* stages ran; a failing stage ends the lookup with an error and no record
C10_StagesInOrder ==
    /\ Len(calls) <= Len(StageOrder)
    /\ calls = SubSeq(StageOrder, 1, Len(calls))
    /\ Invoked("tokenize") => ValidateMessages(messages)
    /\ result.kind = "record" => calls = StageOrder
    /\ result.kind = "error" =>
          /\ pc = "idle"
          /\ result.tokens = <<>> /\ result.labels = <<>>
    /\ Completed => result.kind # "none"

C10_Witness ==
    /\ Completed
    /\ result.kind = "record"
    /\ calls = <<"transform", "format", "build", "validate", "tokenize",
                 "labels">>

C10_FailureWitness ==
    /\ Completed
    /\ result = Raised("ValidationError")
    /\ calls = <<"format", "build", "validate">>

\* C9: lookups leave the configuration and the data source as constructed,
\* and every completed lookup of an index gives what the first lookup of
\* that index gave
C9_LookupsIndependent ==
    /\ cfg = cfg0
    /\ data = data0
    /\ Completed => result = firstResult[index].res

C9_Witness ==
    /\ Completed
    /\ result.kind = "record"
    /\ firstResult[index].seen = 2
    /\ \E j \in DOMAIN firstResult :
          j # index /\ firstResult[j].seen > 0
          /\ firstResult[j].res.kind = "error"

\* C6: a builder asked to pack without a maximum sequence length raises
\* ValueError, and a packed dataset always has a maximum sequence length
C6_PackingNeedsMaxSeqLen ==
    /\ (built.fn = "instruct_dataset" /\ built.packed
        /\ ~built.tokenizer_max_seq_len.some) => built.outcome = "ValueError"
    /\ (built.fn = "issai_instruct_dataset" /\ built.packed
        /\ ~built.max_seq_len.some) => built.outcome = "ValueError"
    /\ built.outcome = "PackedDataset" => built.packed_max_seq_len.some

\* C7: both constructors raise ValueError exactly for the templates that
\* are not InstructTemplate subclasses
C7_ConstructorAcceptsInstructTemplates ==
    built.fn \in DatasetClasses =>
        (built.outcome = "ValueError"
            <=> ~IsSubclass(built.template, "InstructTemplate"))

====
